---- MODULE Spec2Model ----
(***************************************************************************)
(* Model of the package state differencing engine of lliurex-state        *)
(* (src/fetch_packages.py): the control-file parser, the index builder,    *)
(* the baseline and ledger files, the diff and the run loop of main.       *)
(*                                                                         *)
(* Text is modelled at character level: a Python str is a sequence of      *)
(* one-character strings, so that strip, split, concatenation and the      *)
(* code-point comparison of versions are computed, not assumed.            *)
(* A Python dict that keeps insertion order (a parsed stanza, a change     *)
(* record) is a sequence of <<key, value>> pairs with distinct keys; a     *)
(* dict read only by key (baseline, ledger) is a function.                 *)
(***************************************************************************)
EXTENDS Integers, Sequences, FiniteSets, TLC

VARIABLES
    content,            \* parser input: the text handed to parse_packages_file
    parsed,             \* parser output (NotParsed before the call)
    baselineFile,       \* packages_state_internal.json
    ledgerFile,         \* changes_timestamps.json
    clock,              \* the second the run's calls of datetime.utcnow() fall in
    pc,                 \* main: "idle" | "loop" | "save"
    pos,                \* main: position in the scope loop
    all_packages_state, \* main: the in-memory baseline being collected
    runs,               \* number of runs of main started so far
    outcome,            \* how the last run of main ended
    summary,            \* what the last get_package_summary call returned
    called,             \* the position of the scope that call was for (0: none yet)
    last,               \* per scope: the last compare_packages call
    savedSince,         \* per scope: baseline written since the last call
    firstSeen,          \* per scope: <<name, version>> -> time first reported
    lastWrite,          \* the last write of the run to a file, and how it went
    historyFile,        \* history.json
    packagesStateFile,  \* packages_state.json
    saves,              \* number of runs of update_status so far
    savedLog,           \* every entry save_history has written, oldest first
    exitCode            \* what check_state_changes exited with (NoExit: not run)

vars == <<content, parsed, baselineFile, ledgerFile, clock, pc, pos,
          all_packages_state, runs, outcome, summary, called, last, savedSince,
          firstSeen, lastWrite, historyFile, packagesStateFile, saves, savedLog,
          exitCode>>

parserVars == <<content, parsed>>

statusVars == <<historyFile, packagesStateFile, saves, savedLog, exitCode>>

mainVars == <<baselineFile, ledgerFile, clock, pc, pos, all_packages_state,
              runs, outcome, summary, called, last, savedSince, firstSeen,
              lastWrite>>

(***************************************************************************)
(* Python str                                                              *)
(***************************************************************************)

\* Characters of the model in ascending code-point order.
CharOrder ==
    <<"\t", "\n", "\r", " ", "+", "-", ".",
      "0", "1", "2", "3", "4", "5", "6", "7", "8", "9", ":",
      "A", "D", "P", "S", "V", "_",
      "a", "b", "c", "d", "e", "f", "g", "h", "i", "j", "k", "l", "m",
      "n", "o", "p", "q", "r", "s", "t", "u", "v", "w", "x", "y", "z">>

Ord(c) == CHOOSE i \in 1..Len(CharOrder) : CharOrder[i] = c

Digits == <<"0", "1", "2", "3", "4", "5", "6", "7", "8", "9">>

IsDigit(c) == \E i \in 1..10 : Digits[i] = c

DigitVal(c) == (CHOOSE i \in 1..10 : Digits[i] = c) - 1

\* str.strip() removes these from both ends.
IsSpace(c) == c \in {" ", "\t", "\r", "\n"}

RECURSIVE LStrip(_)
LStrip(s) ==
    IF s /= <<>> /\ IsSpace(Head(s)) THEN LStrip(Tail(s)) ELSE s

RECURSIVE RStrip(_)
RStrip(s) ==
    IF s /= <<>> /\ IsSpace(s[Len(s)]) THEN RStrip(SubSeq(s, 1, Len(s) - 1)) ELSE s

Strip(s) == RStrip(LStrip(s))

\* a < b for Python str: code-point order, a proper prefix is smaller.
RECURSIVE StrLt(_, _)
StrLt(a, b) ==
    IF b = <<>> THEN FALSE
    ELSE IF a = <<>> THEN TRUE
    ELSE IF Head(a) = Head(b) THEN StrLt(Tail(a), Tail(b))
    ELSE Ord(Head(a)) < Ord(Head(b))

StrGt(a, b) == StrLt(b, a)

HasChar(s, c) == \E i \in 1..Len(s) : s[i] = c

FirstIndex(s, c) == CHOOSE i \in 1..Len(s) : s[i] = c /\ \A j \in 1..(i - 1) : s[j] /= c

\* content.split('\n'): always at least one piece.
RECURSIVE Split(_, _)
Split(s, sep) ==
    IF ~HasChar(s, sep) THEN <<s>>
    ELSE LET i == FirstIndex(s, sep)
         IN  <<SubSeq(s, 1, i - 1)>> \o Split(SubSeq(s, i + 1, Len(s)), sep)

\* '\n'.join(lines)
RECURSIVE Join(_, _)
Join(lines, sep) ==
    IF lines = <<>> THEN <<>>
    ELSE IF Len(lines) = 1 THEN lines[1]
    ELSE lines[1] \o <<sep>> \o Join(Tail(lines), sep)

\* s[:n]
Take(s, n) == SubSeq(s, 1, IF Len(s) < n THEN Len(s) ELSE n)

(***************************************************************************)
(* Python dict with insertion order: a sequence of <<key, value>> pairs    *)
(***************************************************************************)

Keys(d) == [i \in 1..Len(d) |-> d[i][1]]

Has(d, k) == \E i \in 1..Len(d) : d[i][1] = k

IndexOf(d, k) == CHOOSE i \in 1..Len(d) : d[i][1] = k

\* d.get(k, default)
Get(d, k, default) == IF Has(d, k) THEN d[IndexOf(d, k)][2] ELSE default

\* d[k] = v: a key already present keeps its position
Put(d, k, v) ==
    IF Has(d, k)
    THEN [d EXCEPT ![IndexOf(d, k)] = <<k, v>>]
    ELSE Append(d, <<k, v>>)

(***************************************************************************)
(* parse_packages_file                                                     *)
(***************************************************************************)

\* Python's None: no sequence of one-character strings equals it.
None == <<"None">>

\* A variant in which a blank line emits the current stanza whether or not
\* it has a field.
ParseLineBlankEmits(st, line) ==
    IF Strip(line) = <<>>
    THEN [packages |-> Append(st.packages, st.current_package),
          current_package |-> <<>>,
          current_field |-> None]
    ELSE IF Head(line) = " " \/ Head(line) = "\t"
    THEN IF /\ st.current_field /= None
            /\ st.current_field /= <<>>
            /\ Has(st.current_package, st.current_field)
         THEN [st EXCEPT !.current_package =
                  Put(@, st.current_field,
                      Get(@, st.current_field, <<>>) \o <<" ">> \o Strip(line))]
         ELSE st
    ELSE IF HasChar(line, ":")
    THEN LET i == FirstIndex(line, ":")
             key == Strip(SubSeq(line, 1, i - 1))
             value == Strip(SubSeq(line, i + 1, Len(line)))
         IN  [st EXCEPT !.current_package = Put(@, key, value),
                        !.current_field = key]
    ELSE st

\* A variant with an else branch that forgets the current field on a line
\* that is neither blank, nor a continuation, nor a field.
ParseLineStrict(st, line) ==
    IF Strip(line) = <<>>
    THEN IF st.current_package /= <<>>
         THEN [packages |-> Append(st.packages, st.current_package),
               current_package |-> <<>>,
               current_field |-> None]
         ELSE st
    ELSE IF Head(line) = " " \/ Head(line) = "\t"
    THEN IF /\ st.current_field /= None
            /\ st.current_field /= <<>>
            /\ Has(st.current_package, st.current_field)
         THEN [st EXCEPT !.current_package =
                  Put(@, st.current_field,
                      Get(@, st.current_field, <<>>) \o <<" ">> \o Strip(line))]
         ELSE st
    ELSE IF HasChar(line, ":")
    THEN LET i == FirstIndex(line, ":")
             key == Strip(SubSeq(line, 1, i - 1))
             value == Strip(SubSeq(line, i + 1, Len(line)))
         IN  [st EXCEPT !.current_package = Put(@, key, value),
                        !.current_field = key]
    ELSE [st EXCEPT !.current_field = None]

\* One iteration of the loop over the lines; st = [packages, current_package,
\* current_field].  An empty key is a falsy current_field.
ParseLine(st, line) ==
    IF Strip(line) = <<>>
    THEN IF st.current_package /= <<>>
         THEN [packages |-> Append(st.packages, st.current_package),
               current_package |-> <<>>,
               current_field |-> None]
         ELSE st
    ELSE IF Head(line) = " " \/ Head(line) = "\t"
    THEN IF /\ st.current_field /= None
            /\ st.current_field /= <<>>
            /\ Has(st.current_package, st.current_field)
         THEN [st EXCEPT !.current_package =
                  Put(@, st.current_field,
                      Get(@, st.current_field, <<>>) \o <<" ">> \o Strip(line))]
         ELSE st
    ELSE IF HasChar(line, ":")
    THEN LET i == FirstIndex(line, ":")
             key == Strip(SubSeq(line, 1, i - 1))
             value == Strip(SubSeq(line, i + 1, Len(line)))
         IN  [st EXCEPT !.current_package = Put(@, key, value),
                        !.current_field = key]
    ELSE st

RECURSIVE ParseLines(_, _)
ParseLines(st, lines) ==
    IF lines = <<>> THEN st
    ELSE ParseLines(ParseLine(st, Head(lines)), Tail(lines))

\* A variant that forgets the stanza the text ends in.
parse_packages_file_open_tail(text) ==
    ParseLines([packages |-> <<>>, current_package |-> <<>>,
                current_field |-> None],
               Split(text, "\n")).packages

parse_packages_file(text) ==
    LET st == ParseLines([packages |-> <<>>, current_package |-> <<>>,
                          current_field |-> None],
                         Split(text, "\n"))
    IN  IF st.current_package /= <<>>
        THEN Append(st.packages, st.current_package)
        ELSE st.packages

(***************************************************************************)
(* Values                                                                  *)
(***************************************************************************)

kPackage == <<"P", "a", "c", "k", "a", "g", "e">>
kVersion == <<"V", "e", "r", "s", "i", "o", "n">>
kSize == <<"S", "i", "z", "e">>
kArchitecture == <<"A", "r", "c", "h", "i", "t", "e", "c", "t", "u", "r", "e">>
kDescription == <<"D", "e", "s", "c", "r", "i", "p", "t", "i", "o", "n">>
kPreviousVersion ==
    <<"p", "r", "e", "v", "i", "o", "u", "s", "_", "v", "e", "r", "s", "i", "o", "n">>
kChangeType == <<"c", "h", "a", "n", "g", "e", "_", "t", "y", "p", "e">>
kDetectedAt == <<"d", "e", "t", "e", "c", "t", "e", "d", "_", "a", "t">>
sNew == <<"n", "e", "w">>
sUpdated == <<"u", "p", "d", "a", "t", "e", "d">>
sZero == <<"0">>

\* datetime.utcnow().strftime("%Y-%m-%d %H:%M:%S") at second t of the
\* minute the model's clock stays in.  Every field is of fixed width and zero
\* padded; the fields before the seconds are the same at all times of the
\* model and are left out, which changes neither equality nor order.
strftime(t) == <<":", Digits[(t \div 10) + 1], Digits[(t % 10) + 1]>>

\* int(s) raises ValueError unless s, stripped, is an optional sign and digits.
IntBody(s) ==
    LET t == Strip(s)
    IN  IF t /= <<>> /\ (Head(t) = "+" \/ Head(t) = "-") THEN Tail(t) ELSE t

IsInt(s) ==
    LET b == IntBody(s)
    IN  b /= <<>> /\ \A i \in 1..Len(b) : IsDigit(b[i])

RECURSIVE DigitsVal(_)
DigitsVal(b) ==
    IF b = <<>> THEN 0
    ELSE 10 * DigitsVal(SubSeq(b, 1, Len(b) - 1)) + DigitVal(b[Len(b)])

IntVal(s) ==
    LET t == Strip(s)
    IN  IF Head(t) = "-" THEN 0 - DigitsVal(IntBody(s)) ELSE DigitsVal(IntBody(s))

\* A dict read by key: a function. {} is the empty function.
EmptyDict == <<>>

DictGet(d, k, default) == IF k \in DOMAIN d THEN d[k] ELSE default

DictPut(d, k, v) == (k :> v) @@ d

\* sorted(seq, key=lambda x: x.get(field, default), reverse=True), the key
\* through int() when numeric: stable, equal keys keep their order.
\* place[i] is where seq[i] goes: behind the elements of a greater key and
\* behind the earlier elements of an equal key.
SortedDesc(seq, field, default, numeric) ==
    LET n == Len(seq)
        key == SubSeq([i \in 1..n |->
                   IF numeric THEN IntVal(Get(seq[i], field, default))
                   ELSE Get(seq[i], field, default)], 1, n)
        Gt(a, b) == IF numeric THEN a > b ELSE StrGt(a, b)
        place == SubSeq([i \in 1..n |->
                     Cardinality({j \in 1..n :
                         \/ Gt(key[j], key[i])
                         \/ j < i /\ ~Gt(key[i], key[j])}) + 1], 1, n)
    IN  [p \in 1..n |-> seq[CHOOSE i \in 1..n : place[i] = p]]

(***************************************************************************)
(* Files                                                                   *)
(***************************************************************************)

\* A file is absent, empty, holds text json.loads rejects ("corrupt"), or
\* holds the JSON text of data.  A write, open(..., "w") + json.dump, is
\* one step, whether it succeeds or fails (WriteResult).
FileKinds == {"absent", "empty", "corrupt", "json"}

NoFile(kind) == [kind |-> kind, data |-> EmptyDict]

JsonFile(data) == [kind |-> "json", data |-> data]

\* json.dump writes None as null; json.loads reads null as None.  Strings
\* and objects come back as written.
JsonNull == <<"null">>

JsonOfValue(v) == IF v = None THEN JsonNull ELSE v

ValueOfJson(j) == IF j = JsonNull THEN None ELSE j

\* state is version -> component -> name -> value
json_dump(state) ==
    JsonFile([v \in DOMAIN state |->
                 [c \in DOMAIN state[v] |->
                     [n \in DOMAIN state[v][c] |-> JsonOfValue(state[v][c][n])]]])

json_loads(file) ==
    [v \in DOMAIN file.data |->
        [c \in DOMAIN file.data[v] |->
            [n \in DOMAIN file.data[v][c] |-> ValueOfJson(file.data[v][c][n])]]]

\* A variant that looks the component up under any version of the file.
load_previous_packages_any_version(file, version, component) ==
    IF file.kind /= "json" THEN EmptyDict
    ELSE LET state == json_loads(file)
             holders == {v \in DOMAIN state : component \in DOMAIN state[v]}
         IN  IF holders = {} THEN EmptyDict
             ELSE state[CHOOSE v \in holders : TRUE][component]

load_previous_packages(file, version, component) ==
    IF file.kind = "absent" THEN EmptyDict
    ELSE IF file.kind = "empty" THEN EmptyDict
    ELSE IF file.kind = "corrupt" THEN EmptyDict
    ELSE DictGet(DictGet(json_loads(file), version, EmptyDict), component, EmptyDict)

\* A variant that never reads the ledger back.
load_change_timestamps_fresh(file) == EmptyDict

load_change_timestamps(file) ==
    IF file.kind = "absent" THEN EmptyDict
    ELSE IF file.kind = "empty" THEN EmptyDict
    ELSE IF file.kind = "corrupt" THEN EmptyDict
    ELSE json_loads(file)

\* How a write (open(..., "w") followed by json.dump) can go: it succeeds;
\* open fails and the file stays as it was; or the file is opened, which
\* empties it, and the dump fails before any text or amid the text.
DiskOutcomes == {"ok", "denied", "truncated", "partial"}

\* The file after a write of written.
WriteResult(file, written, disk) ==
    IF disk = "ok" THEN written
    ELSE IF disk = "denied" THEN file
    ELSE IF disk = "truncated" THEN NoFile("empty")
    ELSE NoFile("corrupt")

\* A variant with the write inside a try/except that passes.
WriteRaisesNever(disk) == FALSE

\* open and json.dump are called with no try around them: their OSError
\* leaves the function that writes and its callers.
WriteRaises(disk) == disk /= "ok"

save_change_timestamps(timestamps) == json_dump(timestamps)

save_packages_state(state) == json_dump(state)

(***************************************************************************)
(* compare_packages                                                        *)
(***************************************************************************)

MakeKey(name, version_str) == name \o <<":">> \o version_str

\* A variant that stamps every reported change with the time of the call.
StampAlways(timestamps, pkg_key, current_time) ==
    DictPut(timestamps, pkg_key, current_time)

\* A variant that assigns a mapping with the new key alone, where the code
\* assigns to the key.
StampReplacing(timestamps, pkg_key, current_time) ==
    IF pkg_key \notin DOMAIN timestamps
    THEN DictPut(EmptyDict, pkg_key, current_time)
    ELSE timestamps

\* A variant that stores no time under a key it meets for the first time.
StampBlank(timestamps, pkg_key, current_time) ==
    IF pkg_key \notin DOMAIN timestamps
    THEN DictPut(timestamps, pkg_key, <<>>)
    ELSE timestamps

\* The ledger entry of a change: stored only when the key is not yet there.
Stamp(timestamps, pkg_key, current_time) ==
    IF pkg_key \notin DOMAIN timestamps
    THEN DictPut(timestamps, pkg_key, current_time)
    ELSE timestamps

\* The baseline has the name with another version.
VersionChanged(previous_packages, name, version_str) ==
    previous_packages[name] /= version_str

\* One iteration of the loop over current_packages;
\* acc = [new, updated, timestamps].
CompareStep(acc, pkg, previous_packages, current_time) ==
    LET name == Get(pkg, kPackage, <<>>)
        version_str == Get(pkg, kVersion, <<>>)
        pkg_key == MakeKey(name, version_str)
        ts == Stamp(acc.timestamps, pkg_key, current_time)
    IN  IF name \in DOMAIN previous_packages
        THEN IF VersionChanged(previous_packages, name, version_str)
             THEN [acc EXCEPT
                     !.timestamps = ts,
                     !.updated = Append(@,
                         Put(Put(Put(pkg, kPreviousVersion, previous_packages[name]),
                                 kChangeType, sUpdated),
                             kDetectedAt, ts[pkg_key]))]
             ELSE acc
        ELSE [acc EXCEPT
                !.timestamps = ts,
                !.new = Append(@,
                    Put(Put(pkg, kChangeType, sNew), kDetectedAt, ts[pkg_key]))]

\* The loop from the first package to the last, by halves: the second half
\* goes on from the value the first half has left.
RECURSIVE CompareLoop(_, _, _, _)
CompareLoop(acc, pkgs, previous_packages, current_time) ==
    IF pkgs = <<>> THEN acc
    ELSE IF Len(pkgs) = 1
    THEN CompareStep(acc, pkgs[1], previous_packages, current_time)
    ELSE CHOOSE result \in
             {CompareLoop(half, SubSeq(pkgs, (Len(pkgs) \div 2) + 1, Len(pkgs)),
                          previous_packages, current_time) :
                 half \in {CompareLoop(acc, SubSeq(pkgs, 1, Len(pkgs) \div 2),
                                       previous_packages, current_time)}} : TRUE

DetectedAt(change) == Get(change, kDetectedAt, <<>>)

\* A variant that returns new + updated as collected.
SortChangesUnsorted(new, updated) == new \o updated

\* A variant that concatenates updated + new before sorting.
SortChangesUpdatedFirst(new, updated) ==
    SortedDesc(updated \o new, kDetectedAt, <<>>, FALSE)

\* changes = new + updated, sorted by detected_at, most recent first
SortChanges(new, updated) == SortedDesc(new \o updated, kDetectedAt, <<>>, FALSE)

\* A variant that writes a ledger file holding the scope of the call alone.
compare_packages_own_scope_file(current_packages, previous_packages, version, component, ledger, now) ==
    LET current_time == strftime(now)
        loaded == load_change_timestamps(ledger)
        timestamps == DictGet(DictGet(loaded, version, EmptyDict), component, EmptyDict)
        acc == CompareLoop([new |-> <<>>, updated |-> <<>>, timestamps |-> timestamps],
                           current_packages, previous_packages, current_time)
    IN  [changes |-> SortChanges(acc.new, acc.updated),
         ledger |-> save_change_timestamps(
                        DictPut(EmptyDict, version,
                                DictPut(EmptyDict, component, acc.timestamps)))]

\* Returns the change list and the ledger file as compare_packages leaves it.
compare_packages(current_packages, previous_packages, version, component, ledger, now) ==
    LET current_time == strftime(now)
        loaded == load_change_timestamps(ledger)
        withVersion == IF version \notin DOMAIN loaded
                       THEN DictPut(loaded, version, EmptyDict) ELSE loaded
        all_timestamps == IF component \notin DOMAIN withVersion[version]
                          THEN DictPut(withVersion, version,
                                       DictPut(withVersion[version], component, EmptyDict))
                          ELSE withVersion
        acc == CompareLoop([new |-> <<>>, updated |-> <<>>,
                            timestamps |-> all_timestamps[version][component]],
                           current_packages, previous_packages, current_time)
        saved == DictPut(all_timestamps, version,
                         DictPut(all_timestamps[version], component, acc.timestamps))
    IN  [changes |-> SortChanges(acc.new, acc.updated),
         ledger |-> save_change_timestamps(saved)]

(***************************************************************************)
(* get_package_summary                                                     *)
(***************************************************************************)

MaxRecent == 30
MaxLatest == 20
MaxLargest == 10
MaxDescription == 100

\* A variant that compares with >= where the code compares with >.
ReplacesNotBelow(version_str, stored) ==
    ~StrLt(version_str, Get(stored, kVersion, <<>>))

\* A variant in which the later record of a name always wins.
ReplacesAlways(version_str, stored) == TRUE

\* The stored record of a name is replaced by a later record of that name.
Replaces(version_str, stored) == StrGt(version_str, Get(stored, kVersion, <<>>))

\* One iteration of the loop over packages.
\* A variant without the test of the name.
UniqueStepUnnamed(unique_packages, pkg) ==
    LET name == Get(pkg, kPackage, <<>>)
        version_str == Get(pkg, kVersion, <<>>)
    IN  IF ~Has(unique_packages, name)
        THEN Put(unique_packages, name, pkg)
        ELSE IF Replaces(version_str, Get(unique_packages, name, <<>>))
             THEN Put(unique_packages, name, pkg)
             ELSE unique_packages

UniqueStep(unique_packages, pkg) ==
    LET name == Get(pkg, kPackage, <<>>)
        version_str == Get(pkg, kVersion, <<>>)
    IN  IF name /= <<>>
        THEN IF ~Has(unique_packages, name)
             THEN Put(unique_packages, name, pkg)
             ELSE IF Replaces(version_str, Get(unique_packages, name, <<>>))
                  THEN Put(unique_packages, name, pkg)
                  ELSE unique_packages
        ELSE unique_packages

\* unique_packages: name -> record, in the order the names first appear.
\* The loop from the first package to the last, by halves: the second half
\* goes on from the value the first half has left.
RECURSIVE UniqueLoop(_, _)
UniqueLoop(unique_packages, pkgs) ==
    IF pkgs = <<>> THEN unique_packages
    ELSE IF Len(pkgs) = 1 THEN UniqueStep(unique_packages, pkgs[1])
    ELSE CHOOSE result \in
             {UniqueLoop(half, SubSeq(pkgs, (Len(pkgs) \div 2) + 1, Len(pkgs))) :
                 half \in {UniqueLoop(unique_packages,
                                      SubSeq(pkgs, 1, Len(pkgs) \div 2))}} : TRUE

\* packages_list = list(unique_packages.values())
PackagesList(packages) ==
    LET unique_packages == UniqueLoop(<<>>, packages)
    IN  [i \in 1..Len(unique_packages) |-> unique_packages[i][2]]

SizeStr(pkg) == Get(pkg, kSize, sZero)

\* total_size: a Size that int() rejects is passed over
RECURSIVE TotalSize(_)
TotalSize(packages_list) ==
    IF packages_list = <<>> THEN 0
    ELSE IF Len(packages_list) = 1
    THEN (IF IsInt(SizeStr(packages_list[1]))
          THEN IntVal(SizeStr(packages_list[1])) ELSE 0)
    ELSE TotalSize(SubSeq(packages_list, 1, Len(packages_list) \div 2))
         + TotalSize(SubSeq(packages_list, (Len(packages_list) \div 2) + 1,
                            Len(packages_list)))

VersionOf(pkg) == Get(pkg, kVersion, <<>>)

\* sorted(..., key=int(Size)) evaluates int() on every record.
SortBySizeRaises(packages_list) ==
    \E i \in 1..Len(packages_list) : ~IsInt(SizeStr(packages_list[i]))

PackageForWeb(pkg) ==
    <<<<kPackage, Get(pkg, kPackage, None)>>,
      <<kVersion, Get(pkg, kVersion, None)>>,
      <<kArchitecture, Get(pkg, kArchitecture, None)>>,
      <<kSize, Get(pkg, kSize, None)>>,
      <<kDescription, Take(Get(pkg, kDescription, <<>>), MaxDescription)>>>>

\* {pkg.get('Package'): pkg.get('Version') for pkg in packages_list}
PackagesDict(packages_list) ==
    [n \in {Get(packages_list[i], kPackage, None) : i \in 1..Len(packages_list)} |->
        LET i == CHOOSE j \in 1..Len(packages_list) :
                    /\ Get(packages_list[j], kPackage, None) = n
                    /\ \A k \in (j + 1)..Len(packages_list) :
                          Get(packages_list[k], kPackage, None) /= n
        IN  Get(packages_list[i], kVersion, None)]

\* recent_changes[:30]
RecentChanges(recent_changes) == Take(recent_changes, MaxRecent)

EmptySummary ==
    [raised |-> FALSE, empty |-> TRUE, total_packages |-> 0, total_size |-> 0,
     latest_packages |-> <<>>, largest_packages |-> <<>>, recent_changes |-> <<>>,
     packages |-> <<>>, packages_dict |-> EmptyDict]

Raised ==
    [raised |-> TRUE, empty |-> FALSE, total_packages |-> 0, total_size |-> 0,
     latest_packages |-> <<>>, largest_packages |-> <<>>, recent_changes |-> <<>>,
     packages |-> <<>>, packages_dict |-> EmptyDict]

\* A variant that cuts the index to its first 20 records before sorting.
LatestPackagesCutFirst(packages_list) ==
    SortedDesc(Take(packages_list, MaxLatest), kVersion, <<>>, FALSE)

\* sorted_by_version: sorted by Version as a string, greatest first, cut to
\* the first 20.
LatestPackages(packages_list) ==
    Take(SortedDesc(packages_list, kVersion, <<>>, FALSE), MaxLatest)

\* The summary built from the index and the change list (lines 228-270).
Summarise(packages_list, changes) ==
    IF SortBySizeRaises(packages_list) THEN Raised
    ELSE [raised |-> FALSE, empty |-> FALSE,
          total_packages |-> Len(packages_list),
          total_size |-> TotalSize(packages_list),
          latest_packages |-> LatestPackages(packages_list),
          largest_packages |->
              Take(SortedDesc(packages_list, kSize, sZero, TRUE), MaxLargest),
          recent_changes |-> RecentChanges(changes),
          packages |-> [i \in 1..Len(packages_list) |->
                           PackageForWeb(packages_list[i])],
          packages_dict |-> PackagesDict(packages_list)]

\* A variant that saves the index of the scope as the baseline before it
\* returns.
get_package_summary_saving(packages, version, component, baseline, ledger, now) ==
    IF packages = <<>>
    THEN [summary |-> EmptySummary, ledger |-> ledger, baseline |-> baseline,
          compared |-> FALSE,
          packages_list |-> <<>>, previous_state |-> EmptyDict, changes |-> <<>>]
    ELSE
    LET packages_list == PackagesList(packages)
        previous_state == load_previous_packages(baseline, version, component)
        diff == compare_packages(packages_list, previous_state, version,
                                 component, ledger, now)
    IN  [summary |-> Summarise(packages_list, diff.changes),
         ledger |-> diff.ledger,
         baseline |-> save_packages_state(
                          DictPut(EmptyDict, version,
                                  DictPut(EmptyDict, component,
                                          PackagesDict(packages_list)))),
         compared |-> TRUE,
         packages_list |-> packages_list,
         previous_state |-> previous_state,
         changes |-> diff.changes]

\* The call as a whole: what it returns (or that it raised), the ledger file
\* and the baseline file as it leaves them, and the list compare_packages
\* returned inside it.  The baseline file is opened for reading only.
get_package_summary(packages, version, component, baseline, ledger, now) ==
    IF packages = <<>>
    THEN [summary |-> EmptySummary, ledger |-> ledger, baseline |-> baseline,
          compared |-> FALSE,
          packages_list |-> <<>>, previous_state |-> EmptyDict, changes |-> <<>>]
    ELSE
    LET packages_list == PackagesList(packages)
        compared == version /= "" /\ component /= ""
        previous_state == IF compared
                          THEN load_previous_packages(baseline, version, component)
                          ELSE EmptyDict
        diff == IF compared
                THEN compare_packages(packages_list, previous_state, version,
                                      component, ledger, now)
                ELSE [changes |-> <<>>, ledger |-> ledger]
    IN  [summary |-> Summarise(packages_list, diff.changes),
         ledger |-> diff.ledger,
         baseline |-> baseline,
         compared |-> compared,
         packages_list |-> packages_list,
         previous_state |-> previous_state,
         changes |-> diff.changes]

(***************************************************************************)
(* main                                                                    *)
(***************************************************************************)

\* The scope grid of main, cut to two scopes.
UBUNTU_VERSIONS == <<"focal", "jammy">>

COMPONENTS == <<"main">>

NumScopes == Len(UBUNTU_VERSIONS) * Len(COMPONENTS)

\* The scopes in the order the two nested loops visit them.
Scopes ==
    [i \in 1..NumScopes |->
        [version |-> UBUNTU_VERSIONS[((i - 1) \div Len(COMPONENTS)) + 1],
         component |-> COMPONENTS[((i - 1) % Len(COMPONENTS)) + 1]]]

\* fetch_packages_for_version: the parsed stanzas of every Packages file
\* that was fetched, in the order of the architectures.
RECURSIVE fetch_packages_for_version(_)
fetch_packages_for_version(responses) ==
    IF responses = <<>> THEN <<>>
    ELSE parse_packages_file(Head(responses))
         \o fetch_packages_for_version(Tail(responses))

\* What is kept of a call of compare_packages, and how it compares with the
\* call before it for the same scope.
NoCall ==
    [seq |-> 0, run |-> 0, packages |-> <<>>, packages_list |-> <<>>,
     previous_state |-> EmptyDict, changes |-> <<>>, now |-> 0,
     wrote |-> FALSE, saved |-> FALSE, returned |-> FALSE,
     baselineKind |-> "absent", baselineHasScope |-> FALSE, ledgerKind |-> "absent",
     prevRun |-> 0, prevIndex |-> <<>>,
     sameListing |-> FALSE, sameIndex |-> FALSE, sameChanges |-> FALSE,
     sameChangeSet |-> FALSE, sameTime |-> FALSE, interrupted |-> FALSE]

Range(seq) == {seq[i] : i \in 1..Len(seq)}

ChangeId(change) == <<Get(change, kPackage, <<>>), Get(change, kVersion, <<>>)>>

\* firstSeen after a call at time now that returned changes
NoteFirstSeen(seen, changes, now) ==
    [id \in {ChangeId(changes[j]) : j \in 1..Len(changes)} \ DOMAIN seen |->
        strftime(now)] @@ seen

\* No file was written by the run so far.
NoWrite == [file |-> "none", disk |-> "ok"]

StartRun(maxRuns) ==
    /\ pc = "idle"
    /\ runs < maxRuns
    /\ pc' = "loop"
    /\ pos' = 1
    /\ all_packages_state' = EmptyDict
    /\ runs' = runs + 1
    /\ outcome' = "running"
    /\ clock' \in {clock, clock + 1}
    /\ lastWrite' = NoWrite
    /\ UNCHANGED <<baselineFile, ledgerFile, summary, called, last,
                   savedSince, firstSeen, parserVars, statusVars>>

\* One iteration of the loops over UBUNTU_VERSIONS and COMPONENTS: packages
\* is what fetch_packages_for_version returned for the scope at pos; when it
\* is not empty it is summarised.  disk is how the write of the ledger file
\* inside the call goes: when it raises, the call ends there.
ProcessScope(packages, disk) ==
    /\ pc = "loop"
    /\ LET now == clock
           version == Scopes[pos].version
           component == Scopes[pos].component
           state0 == IF component = COMPONENTS[1]
                     THEN DictPut(all_packages_state, version, EmptyDict)
                     ELSE all_packages_state
       IN  \E ok \in {get_package_summary(packages, version, component,
                                     baselineFile, ledgerFile, now)} :
           \E r \in {IF ok.compared /\ WriteRaises(disk)
                     THEN [ok EXCEPT !.summary = Raised, !.changes = <<>>,
                                     !.ledger = WriteResult(ledgerFile, ok.ledger, disk)]
                     ELSE [ok EXCEPT
                              !.ledger = IF ok.compared
                                         THEN WriteResult(ledgerFile, ok.ledger, disk)
                                         ELSE ok.ledger]} :
           IF packages = <<>>
           THEN /\ all_packages_state' = state0
                /\ pc' = IF pos = NumScopes THEN "save" ELSE "loop"
                /\ pos' = IF pos = NumScopes THEN pos ELSE pos + 1
                /\ UNCHANGED <<baselineFile, ledgerFile, clock, runs, outcome,
                               summary, called, last, savedSince, firstSeen,
                               lastWrite>>
           ELSE /\ ledgerFile' = r.ledger
                /\ lastWrite' = IF r.compared
                                THEN [file |-> "ledger", disk |-> disk]
                                ELSE lastWrite
                /\ summary' = r.summary
                /\ called' = pos
                /\ last' = [last EXCEPT ![pos] =
                       [seq |-> last[pos].seq + 1, run |-> runs,
                        packages |-> packages,
                        packages_list |-> r.packages_list,
                        previous_state |-> r.previous_state,
                        changes |-> r.changes, now |-> now,
                        wrote |-> r.ledger /= ledgerFile,
                        saved |-> savedSince[pos],
                        returned |-> ~r.summary.raised,
                        baselineKind |-> baselineFile.kind,
                        baselineHasScope |->
                            /\ version \in DOMAIN baselineFile.data
                            /\ component \in DOMAIN baselineFile.data[version],
                        ledgerKind |-> ledgerFile.kind,
                        prevRun |-> last[pos].run,
                        prevIndex |-> last[pos].packages_list,
                        sameListing |-> last[pos].seq > 0 /\ packages = last[pos].packages,
                        sameIndex |-> last[pos].seq > 0
                                      /\ r.packages_list = last[pos].packages_list,
                        sameChanges |-> r.changes = last[pos].changes,
                        sameChangeSet |-> Range(r.changes) = Range(last[pos].changes),
                        sameTime |-> now = last[pos].now,
                        interrupted |-> last[pos].run < runs]]
                /\ savedSince' = [savedSince EXCEPT ![pos] = FALSE]
                /\ firstSeen' = [firstSeen EXCEPT ![pos] =
                       NoteFirstSeen(@, r.changes, now)]
                /\ IF r.summary.raised
                   THEN /\ pc' = "idle"
                        /\ outcome' = "raised"
                        /\ UNCHANGED <<pos, all_packages_state>>
                   ELSE /\ all_packages_state' =
                              DictPut(state0, version,
                                      DictPut(state0[version], component,
                                              r.summary.packages_dict))
                        /\ pc' = IF pos = NumScopes THEN "save" ELSE "loop"
                        /\ pos' = IF pos = NumScopes THEN pos ELSE pos + 1
                        /\ UNCHANGED outcome
                /\ baselineFile' = r.baseline
                /\ UNCHANGED <<clock, runs>>
    /\ UNCHANGED <<parserVars, statusVars>>

\* with open("packages_state_internal.json", "w"): json.dump(all_packages_state)
\* disk is how the write goes: when it raises, main ends there.
SaveState(disk) ==
    /\ pc = "save"
    /\ baselineFile' = WriteResult(baselineFile,
                                   save_packages_state(all_packages_state), disk)
    /\ lastWrite' = [file |-> "baseline", disk |-> disk]
    /\ IF WriteRaises(disk)
       THEN outcome' = "raised" /\ UNCHANGED savedSince
       ELSE /\ outcome' = "done"
            /\ savedSince' = [s \in 1..NumScopes |-> TRUE]
    /\ pc' = "idle"
    /\ UNCHANGED <<ledgerFile, clock, pos, all_packages_state, runs, summary,
                   called, last, firstSeen, parserVars, statusVars>>

\* The process is stopped between two steps of a run.
Crash ==
    /\ pc \in {"loop", "save"}
    /\ pc' = "idle"
    /\ outcome' = "crashed"
    /\ UNCHANGED <<baselineFile, ledgerFile, clock, pos, all_packages_state,
                   runs, summary, called, last, savedSince, firstSeen,
                   lastWrite, parserVars, statusVars>>

InitRun ==
    /\ clock = 0
    /\ pc = "idle"
    /\ pos = 1
    /\ all_packages_state = EmptyDict
    /\ runs = 0
    /\ outcome = "none"
    /\ summary = EmptySummary
    /\ called = 0
    /\ last = [s \in 1..NumScopes |-> NoCall]
    /\ savedSince = [s \in 1..NumScopes |-> FALSE]
    /\ firstSeen = [s \in 1..NumScopes |-> EmptyDict]
    /\ lastWrite = NoWrite

\* Before the first run the two files are absent (a fresh checkout), empty
\* or unreadable as JSON.
InitMain ==
    /\ \E kind \in {"absent", "empty", "corrupt"} :
          /\ baselineFile = NoFile(kind)
          /\ ledgerFile = NoFile(kind)
    /\ InitRun

(***************************************************************************)
(* update_status.py, the packages_state.json of fetch_packages.py and      *)
(* check_state_changes.py                                                  *)
(***************************************************************************)

sOnline == <<"o", "n", "l", "i", "n", "e">>
sOffline == <<"o", "f", "f", "l", "i", "n", "e">>
sError == <<"e", "r", "r", "o", "r">>
sNA == <<"N", "/", "A">>
sUrl == <<"u">>

\* What fetch_repo_info returns: the repository answered and its Release
\* file gave last_update (N/A when it had no Date); it answered with
\* another HTTP code; or the request failed.
RepoOnline(last_update) ==
    [status |-> sOnline, url |-> sUrl, last_update |-> last_update,
     packages |-> sNA, http_code |-> <<"2", "0", "0">>]

RepoError ==
    [status |-> sError, url |-> sUrl, http_code |-> <<"4", "0", "4">>,
     error |-> <<"H">>]

RepoOffline == [status |-> sOffline, url |-> sUrl, error |-> <<"E">>]

\* fetch_all_repos: infos is what fetch_repo_info returns for each version.
fetch_all_repos(infos, now) ==
    [timestamp |-> strftime(now),
     repos |-> [v \in Range(UBUNTU_VERSIONS) |-> infos[v]]]

MaxHistory == 30

\* A variant that cuts the history before it appends the new entry.
save_history_cut_first(file, repo_data) ==
    IF file.kind \in {"empty", "corrupt"}
    THEN [file |-> file, raised |-> TRUE]
    ELSE LET history == IF file.kind = "absent" THEN <<>> ELSE file.data
             cut == IF Len(history) > MaxHistory
                    THEN SubSeq(history, Len(history) - MaxHistory + 1, Len(history))
                    ELSE history
         IN  [file |-> JsonFile(Append(cut, repo_data)), raised |-> FALSE]

\* save_history: the file it leaves and whether it raised.  Only
\* FileNotFoundError is caught: on a file json.load rejects the call raises
\* and leaves the file as it is.
save_history(file, repo_data) ==
    IF file.kind \in {"empty", "corrupt"}
    THEN [file |-> file, raised |-> TRUE]
    ELSE LET history == IF file.kind = "absent" THEN <<>> ELSE file.data
             appended == Append(history, repo_data)
         IN  [file |-> JsonFile(
                  IF Len(appended) > MaxHistory
                  THEN SubSeq(appended, Len(appended) - MaxHistory + 1, Len(appended))
                  ELSE appended),
              raised |-> FALSE]

\* versions_summary_light, as main of fetch_packages.py writes it to
\* packages_state.json: one entry per version, online when a component of it
\* had packages; the projections kept under each component are left out.
versions_summary_light(online) ==
    [v \in Range(UBUNTU_VERSIONS) |->
        [status |-> IF v \in online THEN sOnline ELSE sOffline,
         components |-> IF v \in online THEN [c \in Range(COMPONENTS) |-> EmptyDict]
                        ELSE EmptyDict]]

\* load_json of check_state_changes.py: None for a missing file and for one
\* json.load rejects.
load_json(file) == IF file.kind = "json" THEN file.data ELSE None

get_repo_state(repo_info) ==
    [status |-> DictGet(repo_info, "status", None),
     http_code |-> DictGet(repo_info, "http_code", None),
     last_update |-> DictGet(repo_info, "last_update", None)]

\* main of check_state_changes.py: the exit code.
check_state_changes(history_file, packages_state_file) ==
    IF history_file.kind /= "json" \/ history_file.data = <<>> THEN 0
    ELSE IF packages_state_file.kind /= "json" \/ packages_state_file.data = <<>>
    THEN 0
    ELSE
    LET packages_state == load_json(packages_state_file)
        last_entry == load_json(history_file)[Len(load_json(history_file))]
        current_repos == DictGet(packages_state, "repos", EmptyDict)
        last_repos == DictGet(last_entry, "repos", EmptyDict)
        changed == {repo_name \in DOMAIN current_repos :
                       LET current_state == get_repo_state(current_repos[repo_name])
                           last_state == get_repo_state(
                                             DictGet(last_repos, repo_name, EmptyDict))
                       IN  \/ current_state.status /= last_state.status
                           \/ current_state.last_update /= last_state.last_update}
        new_repos == DOMAIN current_repos \ DOMAIN last_repos
        removed_repos == DOMAIN last_repos \ DOMAIN current_repos
    IN  IF changed /= {} \/ new_repos /= {} \/ removed_repos /= {} THEN 0 ELSE 1

NoExit == -1

\* One run of update_status.py at second saves: infos is what the
\* repositories answer.
UpdateStatus(infos, maxSaves) ==
    /\ saves < maxSaves
    /\ \E r \in {save_history(historyFile, fetch_all_repos(infos, saves))} :
          /\ historyFile' = r.file
          /\ savedLog' = IF r.raised THEN savedLog
                         ELSE Append(savedLog, fetch_all_repos(infos, saves))
    /\ saves' = saves + 1
    /\ exitCode' = NoExit
    /\ UNCHANGED <<packagesStateFile, mainVars, parserVars>>

\* The end of a run of main of fetch_packages.py: online holds the versions
\* for which a component had packages.
WritePackagesState(online) ==
    /\ packagesStateFile' = JsonFile(versions_summary_light(online))
    /\ exitCode' = NoExit
    /\ UNCHANGED <<historyFile, saves, savedLog, mainVars, parserVars>>

\* One run of check_state_changes.py.
CheckStateChanges ==
    /\ exitCode = NoExit
    /\ exitCode' = check_state_changes(historyFile, packagesStateFile)
    /\ UNCHANGED <<historyFile, packagesStateFile, saves, savedLog, mainVars,
                   parserVars>>

\* Neither script has run.
InitStatusIdle ==
    /\ historyFile = NoFile("absent")
    /\ packagesStateFile = NoFile("absent")
    /\ saves = 0
    /\ savedLog = <<>>
    /\ exitCode = NoExit

(***************************************************************************)
(* The runs of main over a few listings                                    *)
(***************************************************************************)

MaxRuns == 2

Field(key, value) == key \o <<":", " ">> \o value

Text(lines) == Join(lines, "\n")

nameA == <<"a">>
nameB == <<"b">>
nameA1 == <<"a", ":", "1">>
ver12 == <<"1", ":", "2">>
ver2 == <<"2">>
ver9 == <<"9">>

\* a 1:2 (Size 5) and b without Version
TextA12B ==
    Text(<<Field(kPackage, nameA), Field(kVersion, ver12), Field(kSize, <<"5">>),
           <<>>,
           Field(kPackage, nameB)>>)

\* a 9 and b without Version
TextA9B ==
    Text(<<Field(kPackage, nameA), Field(kVersion, ver9), <<>>,
           Field(kPackage, nameB), <<>>>>)

\* a:1 2, whose ledger key is that of a 1:2
TextA1 == Text(<<Field(kPackage, nameA1), Field(kVersion, ver2)>>)

\* a 1:2
TextA12 == Text(<<Field(kPackage, nameA), Field(kVersion, ver12)>>)

\* b 2 with a Size that is no number
TextBabc ==
    Text(<<Field(kPackage, nameB), Field(kVersion, ver2),
           Field(kSize, <<"a", "b", "c">>)>>)

\* What the fetches of one scope may bring: the contents of the Packages
\* files that answered, none when every fetch failed.
Responses ==
    {<<>>, <<TextA12B>>, <<TextA9B>>, <<TextA1>>, <<TextA12, TextBabc>>}

Listings == {fetch_packages_for_version(responses) : responses \in Responses}

\* The second scope's repository has one content, and its fetch may fail.
OtherListings ==
    {fetch_packages_for_version(responses) :
        responses \in {<<>>, <<TextA12B>>, <<TextA12, TextBabc>>}}

ListingsAt(p) == IF p = 1 THEN Listings ELSE OtherListings

\* parse_packages_file has not returned yet.
NotParsed == [done |-> FALSE, packages |-> <<>>]

InitParserIdle ==
    /\ content = <<>>
    /\ parsed = NotParsed

Init == InitMain /\ InitParserIdle /\ InitStatusIdle

\* The runs of main on a disk whose writes succeed.
Next ==
    \/ StartRun(MaxRuns)
    \/ \E packages \in ListingsAt(pos) : ProcessScope(packages, "ok")
    \/ SaveState("ok")
    \/ Crash

Spec == Init /\ [][Next]_vars

(***************************************************************************)
(* Properties of the diff, over the runs of Spec                           *)
(***************************************************************************)

NameOf(pkg) == Get(pkg, kPackage, <<>>)

\* The change records of a call that are about a name.
RecordsFor(changes, name) == {j \in 1..Len(changes) : NameOf(changes[j]) = name}

ChangeType(change) == Get(change, kChangeType, <<>>)

Called(s) == last[s].seq > 0

\* The Version of a record of the index, None when the stanza had none: the
\* value packages_dict stores for the record.
RecordVersion(pkg) == Get(pkg, kVersion, None)

\* C1: diff completeness.  In every call of compare_packages, a name of the
\* index that the loaded baseline does not hold has exactly one record, of
\* type new; a name the baseline holds with another version has exactly one
\* record, of type updated; a name the baseline holds with the same version
\* has none; and every record is about a name of the index.
C1_DiffComplete ==
    \A s \in 1..NumScopes :
        Called(s) =>
            LET c == last[s]
            IN  /\ \A i \in 1..Len(c.packages_list) :
                      LET name == NameOf(c.packages_list[i])
                          version == RecordVersion(c.packages_list[i])
                          recs == RecordsFor(c.changes, name)
                      IN  IF name \notin DOMAIN c.previous_state
                          THEN /\ Cardinality(recs) = 1
                               /\ \A j \in recs : ChangeType(c.changes[j]) = sNew
                          ELSE IF c.previous_state[name] /= version
                          THEN /\ Cardinality(recs) = 1
                               /\ \A j \in recs : ChangeType(c.changes[j]) = sUpdated
                          ELSE recs = {}
                /\ \A j \in 1..Len(c.changes) :
                      \E i \in 1..Len(c.packages_list) :
                          NameOf(c.packages_list[i]) = NameOf(c.changes[j])

\* C2: idempotence.  A call of compare_packages that follows another call
\* for the same scope with the same index and no baseline save in between
\* returns the same list (records, detected_at, order) and leaves the ledger
\* file as the first call left it.
C2_Idempotent ==
    \A s \in 1..NumScopes :
        (Called(s) /\ last[s].sameIndex /\ ~last[s].saved) =>
            (last[s].sameChanges /\ ~last[s].wrote)

\* A repeated call at a later second that had changes to report.
C2_Witness ==
    \E s \in 1..NumScopes :
        /\ Called(s) /\ last[s].sameIndex /\ ~last[s].saved
        /\ ~last[s].sameTime
        /\ last[s].changes /= <<>>

\* C3: first-seen attribution.  The detected_at of every change record is
\* the time of the earliest call for the scope that reported a change for
\* the record's name and version.
C3_FirstSeen ==
    \A s \in 1..NumScopes :
        \A j \in 1..Len(last[s].changes) :
            DetectedAt(last[s].changes[j]) = firstSeen[s][ChangeId(last[s].changes[j])]

\* C5: run, save, run.  When the baseline a call loads was saved by the run
\* before, from the index of that run, a name whose record is the same in
\* both runs has no change record, and a name whose version differs has
\* exactly one, of type updated, with the two versions.
C5_RunSaveRun ==
    \A s \in 1..NumScopes :
        (Called(s) /\ last[s].saved /\ last[s].prevRun > 0
                   /\ last[s].run = last[s].prevRun + 1) =>
            \A i \in 1..Len(last[s].packages_list), k \in 1..Len(last[s].prevIndex) :
                LET pkg == last[s].packages_list[i]
                    old == last[s].prevIndex[k]
                    recs == RecordsFor(last[s].changes, NameOf(pkg))
                IN  NameOf(pkg) = NameOf(old) =>
                        IF pkg = old THEN recs = {}
                        ELSE Get(pkg, kVersion, None) /= Get(old, kVersion, None) =>
                                /\ Cardinality(recs) = 1
                                /\ \A j \in recs :
                                      /\ ChangeType(last[s].changes[j]) = sUpdated
                                      /\ Get(last[s].changes[j], kPreviousVersion, None)
                                            = Get(old, kVersion, None)
                                      /\ Get(last[s].changes[j], kVersion, None)
                                            = Get(pkg, kVersion, None)

\* C6: at-least-once reporting.  When a run stopped after the diff of a scope
\* and before the baseline was saved, the next call for the scope with the
\* same listing reports the same set of change records, detected_at included.
C6_ReportedAgain ==
    \A s \in 1..NumScopes :
        (Called(s) /\ last[s].sameListing /\ last[s].interrupted /\ ~last[s].saved) =>
            last[s].sameChangeSet

\* A listing with changes met again, at a later second, by the run after a
\* run that stopped before the save.
C6_Witness ==
    \E s \in 1..NumScopes :
        /\ Called(s) /\ last[s].sameListing /\ last[s].interrupted /\ ~last[s].saved
        /\ ~last[s].sameTime
        /\ last[s].changes /= <<>>
        /\ outcome \in {"done", "crashed"}

HasBadSize(packages_list) ==
    \E i \in 1..Len(packages_list) :
        Has(packages_list[i], kSize) /\ ~IsInt(Get(packages_list[i], kSize, <<>>))

\* C7: a record whose Size is no number does not make get_package_summary
\* fail: the call returns, the record is counted and adds 0 to total_size.
C7_BadSizeTolerated ==
    (called > 0 /\ HasBadSize(last[called].packages_list)) =>
        /\ ~summary.raised
        /\ summary.total_packages = Len(last[called].packages_list)
        /\ Len(summary.packages) = Len(last[called].packages_list)
        /\ summary.total_size = TotalSize(last[called].packages_list)

\* C8: baseline fallback.  When the baseline file is absent, empty, not
\* parsable or without an entry for the scope, the loaded baseline is the
\* empty mapping and every name of the index is reported once, as new.
C8_BaselineFallback ==
    \A s \in 1..NumScopes :
        (Called(s) /\ (last[s].baselineKind /= "json" \/ ~last[s].baselineHasScope)) =>
            /\ last[s].previous_state = EmptyDict
            /\ Len(last[s].changes) = Len(last[s].packages_list)
            /\ \A i \in 1..Len(last[s].packages_list) :
                  \E j \in 1..Len(last[s].changes) :
                      /\ NameOf(last[s].changes[j]) = NameOf(last[s].packages_list[i])
                      /\ ChangeType(last[s].changes[j]) = sNew

\* The second scope is diffed against a baseline file that holds the first
\* scope only.
C8_Witness ==
    \E s \in 1..NumScopes :
        /\ Called(s)
        /\ last[s].baselineKind = "json" /\ ~last[s].baselineHasScope
        /\ last[s].changes /= <<>>
        /\ \E v \in DOMAIN baselineFile.data : baselineFile.data[v] /= EmptyDict

(***************************************************************************)
(* parse_packages_file over short texts                                    *)
(***************************************************************************)

MaxLines == 4

SeqsUpTo(S, n) == UNION {[1..k -> S] : k \in 0..n}

\* The lines a text is made of: an empty line, a line of one space, field
\* lines (one ending in a carriage return, one with a second colon that
\* assigns a again), continuation lines opened by a space and by a tab, a
\* line whose key is empty and a line that is none of these.
TextLines ==
    {<<>>,
     <<" ">>,
     <<"a", ":", " ", "x">>,
     <<"b", ":", "y", "\r">>,
     <<"a", ":", "z", ":", "w">>,
     <<" ", "c">>,
     <<"\t", "d", " ">>,
     <<":", "e">>,
     <<"j">>}

Texts == {Text(lines) : lines \in SeqsUpTo(TextLines, MaxLines)}

InitParse ==
    /\ content \in Texts
    /\ parsed = NotParsed
    /\ baselineFile = NoFile("absent")
    /\ ledgerFile = NoFile("absent")
    /\ InitRun
    /\ InitStatusIdle

Parse ==
    /\ ~parsed.done
    /\ parsed' = [done |-> TRUE, packages |-> parse_packages_file(content)]
    /\ UNCHANGED <<content, mainVars, statusVars>>

NextParse == Parse

SpecParse == InitParse /\ [][NextParse]_vars

(***************************************************************************)
(* Properties of the parser, over SpecParse                                *)
(***************************************************************************)

IsBlankLine(line) == \A i \in 1..Len(line) : IsSpace(line[i])

IsContinuation(line) == ~IsBlankLine(line) /\ line[1] \in {" ", "\t"}

IsFieldLine(line) ==
    ~IsBlankLine(line) /\ ~IsContinuation(line) /\ HasChar(line, ":")

KeyOf(line) == Strip(SubSeq(line, 1, FirstIndex(line, ":") - 1))

OwnValue(line) == Strip(SubSeq(line, FirstIndex(line, ":") + 1, Len(line)))

\* The n-th smallest number of a set.
Nth(S, n) == CHOOSE x \in S : Cardinality({y \in S : y < x}) = n - 1

\* A stanza is a maximal run of lines that are not blank.
StanzaStarts(lines) ==
    {a \in 1..Len(lines) :
        ~IsBlankLine(lines[a]) /\ (a = 1 \/ IsBlankLine(lines[a - 1]))}

StanzaEnd(lines, a) ==
    CHOOSE b \in a..Len(lines) :
        /\ \A i \in a..b : ~IsBlankLine(lines[i])
        /\ b = Len(lines) \/ IsBlankLine(lines[b + 1])

FieldLines(lines, a) ==
    {i \in a..StanzaEnd(lines, a) : IsFieldLine(lines[i])}

\* Every stanza has a 'Key: value' line, and every such line has a key.
WellFormed(lines) ==
    \A a \in StanzaStarts(lines) :
        /\ FieldLines(lines, a) /= {}
        /\ \A i \in FieldLines(lines, a) : KeyOf(lines[i]) /= <<>>

\* The keys of the stanza at a, in the order they first appear.
KeysInOrder(lines, a) ==
    LET first == {i \in FieldLines(lines, a) :
                     \A j \in FieldLines(lines, a) :
                         j < i => KeyOf(lines[j]) /= KeyOf(lines[i])}
    IN  [n \in 1..Cardinality(first) |-> KeyOf(lines[Nth(first, n)])]

\* The value of key in the stanza at a: the trimmed value of the line that
\* assigns it last, then the trimmed continuation lines that follow that
\* line before the next field line, joined by one space.
ValueInStanza(lines, a, key) ==
    LET p == CHOOSE i \in FieldLines(lines, a) :
                 /\ KeyOf(lines[i]) = key
                 /\ \A j \in FieldLines(lines, a) : j > i => KeyOf(lines[j]) /= key
        conts == {c \in (p + 1)..StanzaEnd(lines, a) :
                     /\ IsContinuation(lines[c])
                     /\ \A j \in (p + 1)..(c - 1) : ~IsFieldLine(lines[j])}
    IN  Join(<<OwnValue(lines[p])>> \o
             [n \in 1..Cardinality(conts) |-> Strip(lines[Nth(conts, n)])], " ")

MaxBatch == 3

ver10 == <<"1", "0">>

\* The stanzas a batch is drawn from: a 9 with a Size and without one, a 10
\* (below a 9 as a string), a without Version, b 9, a stanza with an empty
\* Package and a stanza without Package.
BatchStanzas ==
    {Text(<<Field(kPackage, nameA), Field(kVersion, ver9), Field(kSize, <<"5">>)>>),
     Text(<<Field(kPackage, nameA), Field(kVersion, ver9)>>),
     Text(<<Field(kPackage, nameA), Field(kVersion, ver10)>>),
     Text(<<Field(kPackage, nameA)>>),
     Text(<<Field(kPackage, nameB), Field(kVersion, ver9)>>),
     Text(<<Field(kPackage, <<>>), Field(kVersion, ver9)>>),
     Text(<<Field(kVersion, ver2)>>)}

BatchRecords == UNION {Range(parse_packages_file(text)) : text \in BatchStanzas}

Batches == SeqsUpTo(BatchRecords, MaxBatch)

\* The first scope brings a batch; every fetch of the second fails.
BatchesAt(p) == IF p = 1 THEN Batches ELSE {<<>>}

NextIndex ==
    \/ StartRun(1)
    \/ \E packages \in BatchesAt(pos) : ProcessScope(packages, "ok")
    \/ SaveState("ok")
    \/ Crash

SpecIndex == Init /\ [][NextIndex]_vars

\* The names of a batch: the Package values that are not empty.
BatchNames(packages) ==
    {NameOf(packages[k]) : k \in 1..Len(packages)} \ {<<>>}

\* C9: deduplication invariant.  The index built from a batch holds exactly
\* one record for each name that occurs in the batch, none for other names;
\* that record is a record of the batch, and its Version is not below, as a
\* string, the Version of any record of the batch with the same name.
C9_Dedup ==
    \A s \in 1..NumScopes :
        Called(s) =>
            LET batch == last[s].packages
                index == last[s].packages_list
            IN  /\ \A i, j \in 1..Len(index) :
                      NameOf(index[i]) = NameOf(index[j]) => i = j
                /\ {NameOf(index[i]) : i \in 1..Len(index)} = BatchNames(batch)
                /\ \A i \in 1..Len(index) :
                      /\ index[i] \in Range(batch)
                      /\ \A k \in 1..Len(batch) :
                            NameOf(batch[k]) = NameOf(index[i]) =>
                                ~StrLt(VersionOf(index[i]), VersionOf(batch[k]))

\* A batch holding a 10, a 9 and a without Version, in that order: the index
\* keeps a 9.
C9_Witness ==
    \E s \in 1..NumScopes :
        /\ Called(s)
        /\ Len(last[s].packages) = 3
        /\ VersionOf(last[s].packages[1]) = ver10
        /\ VersionOf(last[s].packages[2]) = ver9
        /\ ~Has(last[s].packages[3], kVersion)
        /\ \A k \in 1..3 : NameOf(last[s].packages[k]) = nameA
        /\ Len(last[s].packages_list) = 1
        /\ VersionOf(last[s].packages_list[1]) = ver9

(***************************************************************************)
(* Runs of main over listings longer than the change feed                  *)
(***************************************************************************)

\* str(n)
RECURSIVE Decimal(_)
Decimal(n) ==
    IF n < 10 THEN <<Digits[n + 1]>>
    ELSE Decimal(n \div 10) \o <<Digits[(n % 10) + 1]>>

\* n stanzas p1 .. pn; the first m at version 10, the others at version 9.
BigListing(n, m) ==
    [i \in 1..n |->
        <<<<kPackage, <<"p">> \o Decimal(i)>>,
          <<kVersion, IF i <= m THEN ver10 ELSE ver9>>>>]

\* A failed fetch, two packages, as many packages as the feed holds, and two
\* more than that with the first two at a newer version.
BigListings ==
    {<<>>, BigListing(2, 0), BigListing(MaxRecent, 0),
     BigListing(MaxRecent + 2, 2)}

BigListingsAt(p) == IF p = 1 THEN BigListings ELSE {<<>>}

NextBig ==
    \/ StartRun(MaxRuns)
    \/ \E packages \in BigListingsAt(pos) : ProcessScope(packages, "ok")
    \/ SaveState("ok")
    \/ Crash

SpecBig == Init /\ [][NextBig]_vars

\* C4: cap and order of the change feed.  The recent_changes of a summary
\* holds min(30, number of changes) records, is a prefix of the sorted list
\* compare_packages returned, has detected_at values that do not increase,
\* and leaves out no change whose detected_at is above that of a change it
\* holds.
C4_FeedCapOrder ==
    (called > 0 /\ ~summary.raised) =>
        LET changes == last[called].changes
            feed == summary.recent_changes
        IN  /\ Len(feed) = (IF Len(changes) < 30 THEN Len(changes) ELSE 30)
            /\ \A i \in 1..Len(feed) : feed[i] = changes[i]
            /\ \A i \in 1..(Len(feed) - 1) :
                  ~StrLt(DetectedAt(feed[i]), DetectedAt(feed[i + 1]))
            /\ \A i \in 1..Len(feed), j \in (Len(feed) + 1)..Len(changes) :
                  ~StrGt(DetectedAt(changes[j]), DetectedAt(feed[i]))

\* More than 30 changes, first seen at two different seconds, of which the
\* older are left out of the feed.
C4_Witness ==
    /\ called > 0 /\ ~summary.raised
    /\ Len(last[called].changes) > 30
    /\ Len(summary.recent_changes) = 30
    /\ \E i, j \in 1..Len(last[called].changes) :
          /\ i <= 30 /\ j > 30
          /\ StrGt(DetectedAt(last[called].changes[i]),
                   DetectedAt(last[called].changes[j]))

(***************************************************************************)
(* Order of the change records that share a detected_at                    *)
(***************************************************************************)

\* The place of a name in the index that the loop of compare_packages
\* iterates over.
IndexPos(packages_list, name) ==
    CHOOSE i \in 1..Len(packages_list) : NameOf(packages_list[i]) = name

\* detected_at, kind and place in the index of every change record.
ChangeInfo(changes, packages_list) ==
    SubSeq([k \in 1..Len(changes) |->
               [at |-> DetectedAt(changes[k]),
                type |-> ChangeType(changes[k]),
                pos |-> IndexPos(packages_list, NameOf(changes[k]))]],
           1, Len(changes))

\* Positions i < j of two change records with the same detected_at.
Ties(info) ==
    {ij \in (1..Len(info)) \X (1..Len(info)) :
        ij[1] < ij[2] /\ info[ij[1]].at = info[ij[2]].at}

\* C11 as stated: among the change records with the same detected_at, the
\* list compare_packages returns keeps the order of the index, whatever the
\* kind of the records.
C11_TieIndexOrder ==
    \A s \in 1..NumScopes :
        Called(s) =>
            \A info \in {ChangeInfo(last[s].changes, last[s].packages_list)} :
                \A ij \in Ties(info) : info[ij[1]].pos < info[ij[2]].pos

\* C11 as amended: among the change records with the same detected_at, every
\* 'new' record precedes every 'updated' record, and two records of the same
\* kind keep the order of the index.
C11_TieNewFirst ==
    \A s \in 1..NumScopes :
        Called(s) =>
            \A info \in {ChangeInfo(last[s].changes, last[s].packages_list)} :
                \A ij \in Ties(info) :
                    \/ info[ij[1]].type = sNew /\ info[ij[2]].type = sUpdated
                    \/ /\ info[ij[1]].type = info[ij[2]].type
                       /\ info[ij[1]].pos < info[ij[2]].pos

\* A call that returned a 'new' record ahead of an 'updated' record with the
\* same detected_at whose package comes earlier in the index, next to two
\* 'new' and two 'updated' records with that detected_at.
C11_Witness ==
    \E s \in 1..NumScopes :
        /\ Called(s)
        /\ \E info \in {ChangeInfo(last[s].changes, last[s].packages_list)} :
              /\ \E ij \in Ties(info) :
                    /\ info[ij[1]].type = sNew /\ info[ij[2]].type = sUpdated
                    /\ info[ij[2]].pos < info[ij[1]].pos
              /\ \E ij \in Ties(info) :
                    info[ij[1]].type = sNew /\ info[ij[2]].type = sNew
              /\ \E ij \in Ties(info) :
                    info[ij[1]].type = sUpdated /\ info[ij[2]].type = sUpdated

(***************************************************************************)
(* The runs of main as seen from one name of one scope                     *)
(***************************************************************************)

\* The call for scope s follows a run that saved the baseline it loads:
\* it is the first call for the scope, in the first run or after saved runs
\* that had no listing for the scope, or the run before called the scope and
\* saved.  last[s].prevIndex is then the index of the scope in the run before
\* (empty when there was none).
AfterSavedRun(s) ==
    /\ Called(s)
    /\ IF last[s].seq = 1
       THEN last[s].run = 1 \/ last[s].saved
       ELSE last[s].saved /\ last[s].prevRun = last[s].run - 1

\* The places of a name in an index.
PlacesOf(packages_list, name) ==
    {k \in 1..Len(packages_list) : NameOf(packages_list[k]) = name}

\* C12: per (scope, name), with the baseline saved after each run: a run
\* has a 'new' record for a name exactly when the index of the run before
\* did not hold the name, an 'updated' record exactly when it held the name
\* with another version, and no record when it held it with the same
\* version; there is no other kind of record and none about a name the
\* listing does not hold.
C12_NameStateMachine ==
    \A s \in 1..NumScopes :
        AfterSavedRun(s) =>
            LET c == last[s]
            IN  /\ \A j \in 1..Len(c.changes) :
                      /\ ChangeType(c.changes[j]) \in {sNew, sUpdated}
                      /\ PlacesOf(c.packages_list, NameOf(c.changes[j])) /= {}
                /\ \A i \in 1..Len(c.packages_list) :
                      LET name == NameOf(c.packages_list[i])
                          before == PlacesOf(c.prevIndex, name)
                          recs == RecordsFor(c.changes, name)
                          differs == \E k \in before :
                                        RecordVersion(c.prevIndex[k])
                                          /= RecordVersion(c.packages_list[i])
                      IN  /\ Cardinality(recs) = (IF before = {} \/ differs THEN 1 ELSE 0)
                          /\ \A j \in recs :
                                ChangeType(c.changes[j])
                                  = (IF before = {} THEN sNew ELSE sUpdated)

(***************************************************************************)
(* Isolation of the scopes                                                 *)
(***************************************************************************)

\* What a file holds for scope s: whether it has an entry, and the entry.
ScopeEntry(file, s) ==
    LET version == Scopes[s].version
        component == Scopes[s].component
    IN  IF /\ file.kind = "json"
           /\ version \in DOMAIN file.data
           /\ component \in DOMAIN file.data[version]
        THEN [present |-> TRUE, entries |-> file.data[version][component]]
        ELSE [present |-> FALSE, entries |-> EmptyDict]

\* The file with the entries of every scope but s taken out.
OwnScopeOnly(file, s) ==
    IF file.kind /= "json" THEN file
    ELSE IF ScopeEntry(file, s).present
    THEN JsonFile(DictPut(EmptyDict, Scopes[s].version,
                          DictPut(EmptyDict, Scopes[s].component,
                                  ScopeEntry(file, s).entries)))
    ELSE JsonFile(EmptyDict)

\* C13: scope isolation.  A call of get_package_summary for a scope leaves
\* what the ledger file holds for every other scope as it was, and its
\* change list, its summary and the ledger entry it leaves for its own scope
\* are those of the same call on a baseline file and a ledger file from
\* which the entries of the other scopes were taken out.
C13_ScopeIsolation ==
    [][\A s \in 1..NumScopes :
          last'[s].seq /= last[s].seq =>
              /\ \A t \in (1..NumScopes) \ {s} :
                    ScopeEntry(ledgerFile', t) = ScopeEntry(ledgerFile, t)
              /\ \A r \in {get_package_summary(last'[s].packages,
                                 Scopes[s].version, Scopes[s].component,
                                 OwnScopeOnly(baselineFile, s),
                                 OwnScopeOnly(ledgerFile, s), last'[s].now)} :
                    /\ r.changes = last'[s].changes
                    /\ r.summary = summary'
                    /\ ScopeEntry(r.ledger, s) = ScopeEntry(ledgerFile', s)]_vars

\* The second scope was diffed while the baseline file and the ledger file
\* held the first scope, and a package both scopes list at the same version
\* was reported as new for the second scope, with a detected_at of its own.
C13_Witness ==
    /\ called = 2
    /\ last[2].wrote
    /\ last[2].baselineKind = "json"
    /\ ScopeEntry(baselineFile, 1).present
    /\ ScopeEntry(ledgerFile, 1).present
    /\ \E j \in 1..Len(last[2].changes) :
          LET change == last[2].changes[j]
              key == MakeKey(NameOf(change), Get(change, kVersion, <<>>))
          IN  /\ ChangeType(change) = sNew
              /\ NameOf(change) \in DOMAIN ScopeEntry(baselineFile, 1).entries
              /\ key \in DOMAIN ScopeEntry(ledgerFile, 1).entries
              /\ ScopeEntry(ledgerFile, 1).entries[key] /= DetectedAt(change)

(***************************************************************************)
(* Errors of one scope and the rest of the run                             *)
(***************************************************************************)

\* C14: error containment.  A run that is not stopped from outside goes
\* through every scope and ends by the save, also when the call for one of
\* its scopes raised: it never ends by the error of a scope, and the saved
\* baseline holds every scope whose call returned in that run.
C14_ErrorContained ==
    (pc = "idle" /\ runs > 0 /\ outcome /= "crashed") =>
        /\ outcome = "done"
        /\ \A s \in 1..NumScopes :
              (last[s].run = runs /\ last[s].returned) =>
                  ScopeEntry(baselineFile, s).present

(***************************************************************************)
(* Runs of main on a disk whose writes can fail                            *)
(***************************************************************************)

DiskListingsAt(p) ==
    IF p = 1 THEN {<<>>, fetch_packages_for_version(<<TextA9B>>)}
    ELSE {<<>>, fetch_packages_for_version(<<TextA12B>>)}

NextDisk ==
    \/ StartRun(MaxRuns)
    \/ \E packages \in DiskListingsAt(pos), disk \in DiskOutcomes :
          ProcessScope(packages, disk)
    \/ \E disk \in DiskOutcomes : SaveState(disk)
    \/ Crash

SpecDisk == Init /\ [][NextDisk]_vars

\* C15: a failed write is visible to the caller.  After a write of the
\* ledger file or of the baseline file that failed, the run has ended by the
\* error: a failed ledger write ends the call of get_package_summary with no
\* summary returned and nothing stored for the scope, and a failed baseline
\* write ends main without the run counting as saved.
C15_WriteFailureVisible ==
    lastWrite.disk /= "ok" =>
        /\ pc = "idle"
        /\ outcome = "raised"
        /\ lastWrite.file = "ledger" =>
              /\ summary.raised
              /\ ~last[called].returned
              /\ Scopes[called].component \notin
                    DOMAIN DictGet(all_packages_state, Scopes[called].version,
                                   EmptyDict)
        /\ lastWrite.file = "baseline" =>
              \A s \in 1..NumScopes : last[s].run = runs => ~savedSince[s]

\* A run whose baseline write failed amid the text, after a run that ended
\* in the failed ledger write of a call for a listing without defect.
C15_Witness ==
    /\ lastWrite = [file |-> "baseline", disk |-> "partial"]
    /\ baselineFile.kind = "corrupt"
    /\ \E s \in 1..NumScopes :
          /\ Called(s)
          /\ last[s].run < runs
          /\ ~last[s].returned
          /\ ~HasBadSize(last[s].packages_list)
    /\ \E s \in 1..NumScopes : last[s].run = runs /\ last[s].returned

\* C16: ledger fallback.  A ledger file that is absent, empty or not
\* parsable is loaded as the empty mapping, and every change record of a
\* call that found the file so has the time of that call as detected_at.
C16_LedgerFallback ==
    /\ ledgerFile.kind /= "json" => load_change_timestamps(ledgerFile) = EmptyDict
    /\ \A s \in 1..NumScopes :
          (Called(s) /\ last[s].ledgerKind /= "json") =>
              \A j \in 1..Len(last[s].changes) :
                  DetectedAt(last[s].changes[j]) = strftime(last[s].now)

\* A call that found the ledger file emptied or cut short by a failed write
\* and stamped a change that an earlier call had reported at another time.
C16_Witness ==
    \E s \in 1..NumScopes :
        /\ Called(s)
        /\ last[s].ledgerKind \in {"empty", "corrupt"}
        /\ last[s].returned
        /\ \E j \in 1..Len(last[s].changes) :
              /\ DetectedAt(last[s].changes[j]) = strftime(last[s].now)
              /\ firstSeen[s][ChangeId(last[s].changes[j])] /= strftime(last[s].now)

(***************************************************************************)
(* The ledger over the runs                                                *)
(***************************************************************************)

\* C17: the ledger is append-only.  Over the steps of the runs that find the
\* ledger file readable and leave it so, every key the file holds for a scope
\* stays in the file for that scope, with the timestamp it has.
C17_LedgerAppendOnly ==
    [][(ledgerFile.kind = "json" /\ ledgerFile'.kind = "json") =>
          \A s \in 1..NumScopes :
              \A key \in DOMAIN ScopeEntry(ledgerFile, s).entries :
                  /\ key \in DOMAIN ScopeEntry(ledgerFile', s).entries
                  /\ ScopeEntry(ledgerFile', s).entries[key]
                       = ScopeEntry(ledgerFile, s).entries[key]]_vars

\* The ledger of a scope holds keys written by two calls at two different
\* seconds, the later of which reported a key of the earlier one again.
C17_Witness ==
    \E s \in 1..NumScopes :
        /\ Called(s)
        /\ last[s].ledgerKind = "json"
        /\ \E k1, k2 \in DOMAIN ScopeEntry(ledgerFile, s).entries :
              /\ ScopeEntry(ledgerFile, s).entries[k1] /= strftime(last[s].now)
              /\ ScopeEntry(ledgerFile, s).entries[k2] = strftime(last[s].now)
              /\ \E j \in 1..Len(last[s].changes) :
                    /\ k1 = MakeKey(NameOf(last[s].changes[j]),
                                    Get(last[s].changes[j], kVersion, <<>>))
                    /\ DetectedAt(last[s].changes[j]) /= strftime(last[s].now)

(***************************************************************************)
(* The aggregate size                                                      *)
(***************************************************************************)

\* What a record adds to the aggregate size: its Size as an integer, 0 when
\* it has no Size or a Size that is no number.
SizeCounted(pkg) ==
    IF Has(pkg, kSize) /\ IsInt(Get(pkg, kSize, <<>>))
    THEN IntVal(Get(pkg, kSize, <<>>)) ELSE 0

\* The sum of SizeCounted over the records of an index.
RECURSIVE SumOfSizes(_)
SumOfSizes(packages_list) ==
    IF packages_list = <<>> THEN 0
    ELSE SizeCounted(Head(packages_list)) + SumOfSizes(Tail(packages_list))

\* C18: aggregate size.  Every call of get_package_summary returns a
\* total_size that is the sum, over the records of the index (the winning
\* record of each name), of the Size as an integer, a missing Size or one
\* that is no number counting as 0.
C18_AggregateSize ==
    called > 0 =>
        /\ ~summary.raised
        /\ summary.total_size = SumOfSizes(last[called].packages_list)

(***************************************************************************)
(* The record that wins a name                                             *)
(***************************************************************************)

\* The place in a batch of the record that the replacement rule leaves
\* stored for a name: the first of the records of that name whose Version
\* no record of that name exceeds as a string.
WinnerPlace(packages, name) ==
    LET places == PlacesOf(packages, name)
        top == {k \in places :
                   \A other \in places :
                       ~StrGt(VersionOf(packages[other]), VersionOf(packages[k]))}
    IN  CHOOSE k \in top : \A other \in top : k <= other

\* C19: dedup replacement rule.  The record the index holds for a name is
\* the first record of the batch, in input order, among the records of that
\* name with the greatest Version as a string: a later record has replaced
\* it only when strictly greater, so that of two records with equal Version
\* the earlier is kept and 9 is kept against 10.
C19_ReplacementRule ==
    \A s \in 1..NumScopes :
        Called(s) =>
            \A name \in BatchNames(last[s].packages) :
                /\ PlacesOf(last[s].packages_list, name) /= {}
                /\ last[s].packages_list[IndexPos(last[s].packages_list, name)]
                     = last[s].packages[WinnerPlace(last[s].packages, name)]

\* A batch a 9 (with Size), a 10, a 9 (without Size): the index holds the
\* first record.
C19_Witness ==
    \E s \in 1..NumScopes :
        /\ Called(s)
        /\ Len(last[s].packages) = 3
        /\ \A k \in 1..3 : NameOf(last[s].packages[k]) = nameA
        /\ VersionOf(last[s].packages[1]) = ver9
        /\ VersionOf(last[s].packages[2]) = ver10
        /\ VersionOf(last[s].packages[3]) = ver9
        /\ last[s].packages[1] /= last[s].packages[3]
        /\ last[s].packages_list = <<last[s].packages[1]>>

(***************************************************************************)
(* Who writes the baseline file                                            *)
(***************************************************************************)

\* C20: the diff does not persist the baseline.  A call of
\* get_package_summary, with compare_packages inside it, leaves the baseline
\* file as it was, and the file changes only in the save step of main.
C20_DiffKeepsBaseline ==
    [][/\ (\E s \in 1..NumScopes : last'[s].seq /= last[s].seq) =>
              baselineFile' = baselineFile
       /\ baselineFile' /= baselineFile =>
              (pc = "save" /\ lastWrite'.file = "baseline")]_vars

\* A call has returned changes against a saved baseline, has written the
\* ledger, and the baseline file still holds for the scope what the run
\* before saved, which is not the index of the call.
C20_Witness ==
    /\ called > 0
    /\ pc \in {"loop", "save"}
    /\ last[called].returned
    /\ last[called].wrote
    /\ last[called].changes /= <<>>
    /\ ScopeEntry(baselineFile, called).present
    /\ load_previous_packages(baselineFile, Scopes[called].version,
                              Scopes[called].component)
          = last[called].previous_state
    /\ last[called].previous_state /= summary.packages_dict

(***************************************************************************)
(* Lines the parser passes over                                            *)
(***************************************************************************)

\* A line that is not blank, has no colon and starts with neither a space
\* nor a tab.
IsInvalidLine(line) ==
    ~IsBlankLine(line) /\ ~IsContinuation(line) /\ ~HasChar(line, ":")

\* The lines with the invalid ones taken out.
ValidLines(lines) == SelectSeq(lines, LAMBDA line : ~IsInvalidLine(line))

\* C21: parser leniency.  The parser returns for a text what it returns for
\* the text without its invalid lines: such a line adds no field, ends no
\* stanza and leaves the field that continuation lines are appended to.
C21_InvalidLineIgnored ==
    parsed.done =>
        parsed.packages
            = parse_packages_file(Text(ValidLines(Split(content, "\n"))))

\* A field, an invalid line, then a continuation line that was appended to
\* the field.
C21_Witness ==
    /\ parsed.done
    /\ \E i \in 1..(Len(Split(content, "\n")) - 2) :
          LET lines == Split(content, "\n")
          IN  /\ IsFieldLine(lines[i]) /\ KeyOf(lines[i]) = <<"a">>
              /\ IsInvalidLine(lines[i + 1])
              /\ IsContinuation(lines[i + 2])
    /\ \E n \in 1..Len(parsed.packages) :
          Get(parsed.packages[n], <<"a">>, None) = <<"x", " ", "c">>
    /\ Len(Split(content, "\n")) = 3

(***************************************************************************)
(* Blank lines                                                             *)
(***************************************************************************)

\* A continuation line with no field line between it and the blank line (or
\* the start of the text) before it.
IsOrphan(lines, c) ==
    /\ IsContinuation(lines[c])
    /\ \A i \in 1..(c - 1) :
          IsFieldLine(lines[i]) => \E b \in (i + 1)..(c - 1) : IsBlankLine(lines[b])

\* The lines with the orphan continuation lines taken out.
WithoutOrphans(lines) ==
    LET kept == {c \in 1..Len(lines) : ~IsOrphan(lines, c)}
    IN  [n \in 1..Cardinality(kept) |-> lines[Nth(kept, n)]]

\* C22: stanza boundary.  The parser returns one mapping for each stanza
\* that has a field line and none for the others, so no mapping is empty
\* however many blank lines follow each other; and a continuation line that
\* comes after a blank line and before any field line is dropped: the text
\* without such lines is parsed to the same mappings.
C22_BlankLine ==
    LET lines == Split(content, "\n")
    IN  parsed.done =>
            /\ \A n \in 1..Len(parsed.packages) : parsed.packages[n] /= <<>>
            /\ Len(parsed.packages)
                  = Cardinality({a \in StanzaStarts(lines) :
                                    FieldLines(lines, a) /= {}})
            /\ parsed.packages = parse_packages_file(Text(WithoutOrphans(lines)))

\* A field, two blank lines, then a continuation line: one mapping, with the
\* field's own value.
C22_Witness ==
    /\ parsed.done
    /\ Len(Split(content, "\n")) = 4
    /\ IsFieldLine(Split(content, "\n")[1])
    /\ IsBlankLine(Split(content, "\n")[2])
    /\ IsBlankLine(Split(content, "\n")[3])
    /\ IsContinuation(Split(content, "\n")[4])
    /\ parsed.packages = <<(<<(<<(<<"a">>), (<<"x">>)>>)>>)>>

(***************************************************************************)
(* The most recent packages by version                                     *)
(***************************************************************************)

\* C23: most-recent projection.  latest_packages holds min(20, size of the
\* index) records of the index, no record twice, with Version values that
\* do not increase as strings, and no record of the index that is left out
\* has a Version above that of a record that is kept.
C23_LatestByVersion ==
    (called > 0 /\ ~summary.raised) =>
        LET index == last[called].packages_list
            latest == summary.latest_packages
            kept == {NameOf(latest[i]) : i \in 1..Len(latest)}
        IN  /\ Len(latest) = (IF Len(index) < 20 THEN Len(index) ELSE 20)
            /\ \A i \in 1..Len(latest) : latest[i] \in Range(index)
            /\ Cardinality(kept) = Len(latest)
            /\ \A i \in 1..(Len(latest) - 1) :
                  ~StrLt(VersionOf(latest[i]), VersionOf(latest[i + 1]))
            /\ \A o \in 1..Len(index), i \in 1..Len(latest) :
                  NameOf(index[o]) \notin kept =>
                      ~StrGt(VersionOf(index[o]), VersionOf(latest[i]))

\* An index of more than 20 records at two versions: the 20 kept are at
\* version 9, and records at version 9 and at version 10 are left out.
C23_Witness ==
    /\ called > 0 /\ ~summary.raised
    /\ Len(last[called].packages_list) > 20
    /\ Len(summary.latest_packages) = 20
    /\ \A i \in 1..20 : VersionOf(summary.latest_packages[i]) = ver9
    /\ \E o \in 1..Len(last[called].packages_list) :
          /\ VersionOf(last[called].packages_list[o]) = ver10
          /\ o <= 20
    /\ \E o \in 1..Len(last[called].packages_list) :
          /\ VersionOf(last[called].packages_list[o]) = ver9
          /\ last[called].packages_list[o] \notin Range(summary.latest_packages)


(***************************************************************************)
(* The status scripts: update_status.py saves the repositories' state to   *)
(* history.json, fetch_packages.py writes packages_state.json and          *)
(* check_state_changes.py compares the two.                                *)
(***************************************************************************)

MaxSaves == 2

date1 == <<"d", "1">>
date2 == <<"d", "2">>

RepoInfos == {RepoOnline(sNA), RepoOnline(date1), RepoOnline(date2), RepoError, RepoOffline}

InitStatus ==
    /\ InitMain
    /\ InitParserIdle
    /\ historyFile \in {NoFile("absent"), NoFile("empty"), NoFile("corrupt")}
    /\ packagesStateFile \in {NoFile("absent"), NoFile("corrupt")}
    /\ saves = 0
    /\ savedLog = <<>>
    /\ exitCode = NoExit

NextStatus ==
    \/ \E infos \in [Range(UBUNTU_VERSIONS) -> RepoInfos] : UpdateStatus(infos, MaxSaves)
    \/ \E online \in SUBSET Range(UBUNTU_VERSIONS) : WritePackagesState(online)
    \/ CheckStateChanges

SpecStatus == InitStatus /\ [][NextStatus]_vars

\* The repository states a file holds: per repository its status and its
\* last_update (None when it has none).
RepoStates(repos) ==
    [repo_name \in DOMAIN repos |->
        [status |-> DictGet(repos[repo_name], "status", None),
         last_update |-> DictGet(repos[repo_name], "last_update", None)]]

\* The repositories of packages_state.json are its versions.
CurrentRepoStates == RepoStates(packagesStateFile.data)

LastRepoStates ==
    RepoStates(DictGet(historyFile.data[Len(historyFile.data)], "repos", EmptyDict))

\* C24: check_state_changes exits with 0 when history.json is missing or
\* empty or packages_state.json cannot be loaded, with 1 when the current
\* state and the last history entry hold the same repository states (names,
\* status, last_update), and with 0 when they differ.
C24_ExitCode ==
    exitCode /= NoExit =>
        exitCode = IF historyFile.kind /= "json" \/ historyFile.data = <<>> THEN 0
                   ELSE IF packagesStateFile.kind /= "json" THEN 0
                   ELSE IF CurrentRepoStates = LastRepoStates THEN 1
                   ELSE 0


(***************************************************************************)
(* The ledger key                                                          *)
(***************************************************************************)

\* C25: ledger keys are injective within a scope.  No two different
\* (name, version) pairs for which the scope's calls produced a change have
\* the same ledger key, so no pairing is given the timestamp stored for
\* another.
C25_KeyInjective ==
    \A s \in 1..NumScopes :
        \A p, q \in DOMAIN firstSeen[s] :
            p /= q => MakeKey(p[1], p[2]) /= MakeKey(q[1], q[2])


(***************************************************************************)
(* The ledger and the cap of the feed over three runs                      *)
(***************************************************************************)

MaxLongRuns == 3

\* One package at an epoch version; one more package than the feed holds
\* and, after them, a package whose name holds a ':'.
CapListings ==
    {fetch_packages_for_version(<<TextA12>>),
     SubSeq(BigListing(MaxRecent + 1, 0), 1, MaxRecent + 1)
         \o fetch_packages_for_version(<<TextA1>>)}

CapListingsAt(p) == IF p = 1 THEN CapListings ELSE {<<>>}

NextCap ==
    \/ StartRun(MaxLongRuns)
    \/ \E packages \in CapListingsAt(pos) : ProcessScope(packages, "ok")
    \/ SaveState("ok")
    \/ Crash

SpecCap == Init /\ [][NextCap]_vars

\* The ledger entries of the scope at place s.
LedgerOf(s) ==
    DictGet(DictGet(load_change_timestamps(ledgerFile), Scopes[s].version, EmptyDict),
            Scopes[s].component, EmptyDict)

\* C26: the ledger is written before the cap.  After a call that returned,
\* every change of the diff has a ledger entry, those left out of the
\* 30-entry feed included; and a change the previous call of the scope left
\* out of its feed carries, when this call produces it again, the time of
\* the call that first produced it.
C26_LedgerBeforeCap ==
    [][\A s \in 1..NumScopes :
          (last'[s].seq = last[s].seq + 1 /\ last'[s].returned) =>
              /\ \A j \in 1..Len(last'[s].changes) :
                    MakeKey(ChangeId(last'[s].changes[j])[1],
                            ChangeId(last'[s].changes[j])[2])
                        \in DOMAIN LedgerOf(s)'
              /\ last[s].returned =>
                    \A i \in (MaxRecent + 1)..Len(last[s].changes) :
                        \A j \in 1..Len(last'[s].changes) :
                            ChangeId(last'[s].changes[j]) = ChangeId(last[s].changes[i])
                                => DetectedAt(last'[s].changes[j])
                                       = firstSeen'[s][ChangeId(last[s].changes[i])]]_vars


(***************************************************************************)
(* Three runs that all reach the save, with listings that may be empty     *)
(***************************************************************************)

EmptyListingsAt(p) ==
    IF p = 1
    THEN {fetch_packages_for_version(responses) :
              responses \in {<<>>, <<TextA12B>>, <<TextA9B>>}}
    ELSE {fetch_packages_for_version(responses) :
              responses \in {<<>>, <<TextA12B>>}}

NextEmpty ==
    \/ StartRun(MaxLongRuns)
    \/ \E packages \in EmptyListingsAt(pos) : ProcessScope(packages, "ok")
    \/ SaveState("ok")

SpecEmpty == Init /\ [][NextEmpty]_vars

\* C27: a scope whose listing is empty in a run is not diffed, and the
\* baseline saved at the end of the run holds an entry for exactly the
\* scopes the run diffed, all of them scopes of UBUNTU_VERSIONS and
\* COMPONENTS, whatever the file held before; and a call that finds no entry
\* for its scope in the baseline file reports every package of the index as
\* new.
C27_EmptyScopeDropped ==
    [][/\ (pc = "loop" /\ pc' /= "idle" /\ last' = last) =>
              ledgerFile' = ledgerFile /\ summary' = summary /\ called' = called
       /\ (pc = "save" /\ outcome' = "done") =>
              /\ baselineFile'.kind = "json"
              /\ \A s \in 1..NumScopes :
                    ScopeEntry(baselineFile', s).present
                        <=> (Called(s) /\ last[s].run = runs)
              /\ \A version \in DOMAIN baselineFile'.data :
                    /\ version \in Range(UBUNTU_VERSIONS)
                    /\ DOMAIN baselineFile'.data[version] \subseteq Range(COMPONENTS)
       /\ \A s \in 1..NumScopes :
              (/\ last'[s].seq /= last[s].seq
               /\ last'[s].returned
               /\ ~ScopeEntry(baselineFile, s).present) =>
                  /\ Len(last'[s].changes) = Len(last'[s].packages_list)
                  /\ \A pkg \in Range(last'[s].packages_list) :
                        \E j \in RecordsFor(last'[s].changes, NameOf(pkg)) :
                            ChangeType(last'[s].changes[j]) = sNew]_vars

\* The first scope was diffed and saved in the first run, had an empty
\* listing in the second run, whose save left it out of the baseline file,
\* and in the third run all its packages are new again.
C27_Witness ==
    /\ runs = 3
    /\ last[1].run = 3 /\ last[1].prevRun = 1
    /\ last[1].baselineKind = "json" /\ ~last[1].baselineHasScope
    /\ last[1].sameListing
    /\ Len(last[1].changes) = Len(last[1].packages_list)
    /\ last[1].changes /= <<>>


(***************************************************************************)
(* The order of the writes of a run                                        *)
(***************************************************************************)

\* The scope at place t was diffed in the current run.
DiffedInRun(t) == Called(t) /\ last[t].run = runs /\ last[t].returned

\* The step diffs the scope at pos.
DiffStep == pc = "loop" /\ last'[pos].seq /= last[pos].seq

\* The step ends the run while a scope is processed.
FailsInLoop == pc = "loop" /\ outcome' \in {"raised", "crashed"}

\* The ledger file holds for the scope at place t the time of every change
\* its last call returned.
LedgerHolds(file, t) ==
    /\ ScopeEntry(file, t).present
    /\ \A j \in 1..Len(last[t].changes) :
          \E id \in {ChangeId(last[t].changes[j])} :
              /\ MakeKey(id[1], id[2]) \in DOMAIN ScopeEntry(file, t).entries
              /\ ScopeEntry(file, t).entries[MakeKey(id[1], id[2])]
                     = DetectedAt(last[t].changes[j])

\* The step is a write of the ledger file that failed after the file was
\* opened.
LedgerWriteCutShort ==
    /\ DiffStep
    /\ lastWrite'.file = "ledger"
    /\ lastWrite'.disk \in {"truncated", "partial"}

\* The ledger is written in the step that diffs a scope and in no other,
\* the baseline file only in the step after the last scope; and a step that
\* ends the run while a scope is processed leaves in the baseline file, for
\* every scope the run has diffed, what the scope's call had loaded from it.
WritesInOrder ==
    /\ DiffStep => lastWrite'.file = "ledger"
    /\ ledgerFile' /= ledgerFile => DiffStep
    /\ baselineFile' /= baselineFile => pc = "save" /\ pos = NumScopes
    /\ FailsInLoop =>
          /\ baselineFile' = baselineFile
          /\ \A t \in 1..NumScopes :
                DiffedInRun(t) =>
                    load_previous_packages(baselineFile', Scopes[t].version,
                                           Scopes[t].component)
                        = last[t].previous_state

Nameless(pkg) == NameOf(pkg) = <<>>

\* The names a list of records or of projections holds.
NamesIn(records) == {NameOf(records[i]) : i \in 1..Len(records)}

\* C29: records without a package name are not indexed.  After a call that
\* returned, the index holds no record without a name; total_packages
\* counts the names of the batch; no record of packages, latest_packages,
\* largest_packages or recent_changes and no key of packages_dict is without
\* a name; and every key the ledger holds for the scope is the key of a
\* named record of the index.
C29_NamelessNotIndexed ==
    (called > 0 /\ ~summary.raised) =>
        LET batch == last[called].packages
            index == last[called].packages_list
        IN  /\ \A i \in 1..Len(index) : ~Nameless(index[i])
            /\ summary.total_packages = Cardinality(BatchNames(batch))
            /\ NamesIn(summary.packages) = BatchNames(batch)
            /\ DOMAIN summary.packages_dict = BatchNames(batch)
            /\ NamesIn(summary.latest_packages) \subseteq BatchNames(batch)
            /\ NamesIn(summary.largest_packages) \subseteq BatchNames(batch)
            /\ NamesIn(last[called].changes) \subseteq BatchNames(batch)
            /\ NamesIn(summary.recent_changes) \subseteq BatchNames(batch)
            /\ \A key \in DOMAIN LedgerOf(called) :
                  \E i \in 1..Len(index) :
                      key = MakeKey(NameOf(index[i]), VersionOf(index[i]))

\* A batch with a record whose Package is empty, a record without Package
\* and a named record: the index holds the named record only, and the
\* ledger one key.
C29_Witness ==
    /\ called > 0 /\ ~summary.raised
    /\ \E k \in 1..Len(last[called].packages) :
          /\ Has(last[called].packages[k], kPackage)
          /\ Nameless(last[called].packages[k])
    /\ \E k \in 1..Len(last[called].packages) :
          ~Has(last[called].packages[k], kPackage)
    /\ Len(last[called].packages_list) = 1
    /\ summary.total_packages = 1
    /\ Cardinality(DOMAIN LedgerOf(called)) = 1


(***************************************************************************)
(* The history of update_status.py over more runs than it keeps            *)
(***************************************************************************)

MaxHistorySaves == 32

AllOnline == [v \in Range(UBUNTU_VERSIONS) |-> RepoOnline(date1)]
AllOffline == [v \in Range(UBUNTU_VERSIONS) |-> RepoOffline]

\* What the repositories answer in the next run: they are online until
\* they go offline, and then stay so.
AnswersAfter(log) ==
    IF log /= <<>> /\ log[Len(log)].repos = AllOffline
    THEN {AllOffline}
    ELSE {AllOnline, AllOffline}

\* history.json is absent, empty or unreadable before the first run.
InitHistory ==
    /\ baselineFile = NoFile("absent")
    /\ ledgerFile = NoFile("absent")
    /\ InitRun
    /\ InitParserIdle
    /\ historyFile \in {NoFile("absent"), NoFile("empty"), NoFile("corrupt")}
    /\ packagesStateFile = NoFile("absent")
    /\ saves = 0
    /\ savedLog = <<>>
    /\ exitCode = NoExit

NextHistory == \E infos \in AnswersAfter(savedLog) : UpdateStatus(infos, MaxHistorySaves)

SpecHistory == InitHistory /\ [][NextHistory]_vars

====
